---- MODULE Spec2Model ----
(***************************************************************************)
(* Model of the worker pool of src/src/lib.rs: ThreadPool (build, execute, *)
(* get_job_metadata, Drop) and the worker loop of Worker::new.             *)
(*                                                                         *)
(* Threads are the callers of the pool (Clients), the thread that owns the *)
(* pool and disposes it, and one thread per worker.  Every access to a     *)
(* shared object (the receiver mutex, the channel, the registry mutex, the *)
(* registry map) is one step; thread-local code between two such accesses  *)
(* belongs to the step before it, except the payload call, which belongs   *)
(* to the step that records its outcome: a worker at "run" is inside it.   *)
(*                                                                         *)
(* Job identifiers are Uuid::new_v4() values; they are modelled as fresh   *)
(* numbers 1, 2, ... (a v4 collision is not modelled).  Payloads are       *)
(* closures that return Ok(text) or Err(text); Spec, PoolSpec and FairSpec *)
(* explore payloads that return (no panic, no endless loop) and threads    *)
(* that do not panic, under which neither mutex is ever poisoned.          *)
(* PanicSpec adds payloads that panic and a worker that panics while it    *)
(* holds the registry mutex.                                               *)
(***************************************************************************)
EXTENDS Integers, Sequences, FiniteSets, TLC

\* ---- bounds ----
MaxSize == 2        \* largest size passed to build
MaxJobs == 2        \* number of execute calls explored
NumClients == 1     \* threads calling execute concurrently

Workers == 1..MaxSize
Clients == 1..NumClients
JobIds  == 1..MaxJobs

NoOne  == 0         \* the receiver mutex unheld / a worker holding no job
Unlocked == <<"free", 0>>   \* the registry mutex unheld
Poisoned == <<"poisoned", 0>>   \* the registry mutex after a holder panicked
NoText == "none"    \* Option<String>::None

\* JobPayload: the outcome the closure produces when called, a success text
\* or a failure text
Payloads == {[kind |-> "Ok", text |-> "done"], [kind |-> "Err", text |-> "boom"]}

\* a closure that panics instead of returning; only PanicSpec submits it
PanicPayload == [kind |-> "Panic", text |-> NoText]

\* JobStatus
Pending    == [tag |-> "Pending",    reason |-> NoText]
Processing == [tag |-> "Processing", reason |-> NoText]
Completed  == [tag |-> "Completed",  reason |-> NoText]
Failed(r)  == [tag |-> "Failed",     reason |-> r]

\* JobMetadata
JobMetadata(s, r) == [state |-> s, result |-> r]

VARIABLES
    pool,       \* "unbuilt" | "error" | "live" | "dropping" | "dropped"
    size,       \* number of workers of the pool
    sender,     \* TRUE while ThreadPool.sender is Some (producer end open)
    queue,      \* the channel's buffer: job ids, oldest first
    payload,    \* job id -> payload of the Job created for it
    jobs,       \* the registry: job id -> JobMetadata
    jobsLock,   \* the registry mutex: Unlocked, Poisoned, <<"w", w>>, <<"c", c>>
    rxLock,     \* holder of the receiver mutex: NoOne or a worker
    wpc,        \* worker -> position in the worker loop; "exit" after the
                \* loop was left, "dead" after the thread panicked
    held,       \* worker -> id of the job it owns, or NoOne
    cpc,        \* client -> position inside execute; "panicked" after the
                \* call unwound
    cjob,       \* client -> job_id local of execute
    joinIdx,    \* index of the worker Drop is joining
    lastQuery,  \* what the latest get_job_metadata call returned
    pushed,     \* history: ids in the order they were sent
    claimed,    \* history: ids in the order recv returned them
    runs,       \* history: job id -> number of calls of its payload
    issued,     \* history: ids execute has returned
    lateClaim   \* history: recv has returned a job after the sender was dropped

vars == <<pool, size, sender, queue, payload, jobs, jobsLock, rxLock, wpc,
          held, cpc, cjob, joinIdx, lastQuery, pushed, claimed, runs, issued,
          lateClaim>>

NoQuery == [id |-> 0, found |-> FALSE, meta |-> JobMetadata(Pending, NoText)]

Init ==
    /\ pool = "unbuilt"
    /\ size = 0
    /\ sender = FALSE
    /\ queue = <<>>
    /\ payload = <<>>
    /\ jobs = <<>>
    /\ jobsLock = Unlocked
    /\ rxLock = NoOne
    /\ wpc = [w \in Workers |-> "none"]
    /\ held = [w \in Workers |-> NoOne]
    /\ cpc = [c \in Clients |-> "idle"]
    /\ cjob = [c \in Clients |-> NoOne]
    /\ joinIdx = 0
    /\ lastQuery = NoQuery
    /\ pushed = <<>>
    /\ claimed = <<>>
    /\ runs = [i \in JobIds |-> 0]
    /\ issued = {}
    /\ lateClaim = FALSE

\* ---- helpers ----
SeqSet(s) == {s[i] : i \in 1..Len(s)}

\* a variant of execute that never registers the job
MapInsertNothing(m, k, v) == m

\* HashMap::insert
MapInsert(m, k, v) == [i \in (DOMAIN m) \cup {k} |-> IF i = k THEN v ELSE m[i]]

\* a variant that derives the identifier from the number of waiting jobs
NewIdFromQueueLen == Len(queue) + 1

\* Uuid::new_v4(): an identifier no Job has been created with
NewId == Len(payload) + 1

\* ---- ThreadPool::build ----
BuildWorkers(n) == [w \in Workers |-> IF w <= n THEN "lock_rx" ELSE "none"]

\* a variant without the size check
BuildRejectsNothing(n) == FALSE

\* lines 88-90: size == 0 is refused with NonValueZeroAllowed
BuildRejects(n) == n = 0

\* size is the argument of the call
Build(n) ==
    /\ pool = "unbuilt"
    /\ size' = n
    /\ IF BuildRejects(n)
       THEN /\ pool' = "error"
            /\ UNCHANGED <<sender, wpc>>
       ELSE /\ pool' = "live"
            /\ sender' = TRUE
            /\ wpc' = BuildWorkers(n)
    /\ UNCHANGED <<queue, payload, jobs, jobsLock, rxLock, held, cpc, cjob,
                   joinIdx, lastQuery, pushed, claimed, runs, issued,
                   lateClaim>>

\* ---- ThreadPool::execute ----
\* lines 130-143: create the Job and its Pending metadata, lock the registry
\* and insert
ExecuteInsert(c, p) ==
    /\ pool = "live"
    /\ cpc[c] = "idle"
    /\ NewId <= MaxJobs
    /\ jobsLock = Unlocked
    /\ payload' = Append(payload, p)
    /\ jobs' = MapInsert(jobs, NewId, JobMetadata(Pending, NoText))
    /\ jobsLock' = <<"c", c>>
    /\ cjob' = [cjob EXCEPT ![c] = NewId]
    /\ cpc' = [cpc EXCEPT ![c] = "inserted"]
    /\ UNCHANGED <<pool, size, sender, queue, rxLock, wpc, held, joinIdx,
                   lastQuery, pushed, claimed, runs, issued, lateClaim>>

\* line 144: the guard goes out of scope
ExecuteUnlock(c) ==
    /\ cpc[c] = "inserted"
    /\ jobsLock = <<"c", c>>
    /\ jobsLock' = Unlocked
    /\ cpc' = [cpc EXCEPT ![c] = "send"]
    /\ UNCHANGED <<pool, size, sender, queue, payload, jobs, rxLock, wpc,
                   held, cjob, joinIdx, lastQuery, pushed, claimed, runs,
                   issued, lateClaim>>

\* the Receiver lives in an Arc every worker thread holds a clone of: it is
\* dropped when the last worker thread has ended
ReceiverAlive == \E w \in Workers : wpc[w] \notin {"none", "exit", "dead"}

\* line 147: Sender::send returns Ok
SendDelivered == sender /\ ReceiverAlive

\* a variant that unwraps the result of send
ExecuteReturnsIfDelivered(delivered) == delivered

\* lines 147-152: an Err of send is printed, job_id is returned either way
ExecuteReturns(delivered) == TRUE

\* lines 146-152: Sender::send fails only when the Receiver is gone; the
\* failure is printed and the id is returned either way
ExecuteSend(c) ==
    /\ cpc[c] = "send"
    /\ IF SendDelivered
       THEN /\ queue' = Append(queue, cjob[c])
            /\ pushed' = Append(pushed, cjob[c])
       ELSE UNCHANGED <<queue, pushed>>
    /\ issued' = IF ExecuteReturns(SendDelivered)
                 THEN issued \cup {cjob[c]}
                 ELSE issued
    /\ cpc' = [cpc EXCEPT ![c] = IF ExecuteReturns(SendDelivered)
                                 THEN "idle"
                                 ELSE "panicked"]
    /\ cjob' = [cjob EXCEPT ![c] = NoOne]
    /\ UNCHANGED <<pool, size, sender, payload, jobs, jobsLock, rxLock, wpc,
                   held, joinIdx, lastQuery, claimed, runs, lateClaim>>

\* ---- ThreadPool::get_job_metadata ----
\* HashMap::get(..).cloned()
Lookup(m, id) ==
    IF id \in DOMAIN m
    THEN [id |-> id, found |-> TRUE, meta |-> m[id]]
    ELSE [id |-> id, found |-> FALSE, meta |-> JobMetadata(Pending, NoText)]

\* lock, get, clone, unlock: one critical section with no other shared access
GetJobMetadata(id) ==
    /\ pool = "live"
    /\ jobsLock = Unlocked
    /\ lastQuery' = Lookup(jobs, id)
    /\ UNCHANGED <<pool, size, sender, queue, payload, jobs, jobsLock, rxLock,
                   wpc, held, cpc, cjob, joinIdx, pushed, claimed, runs,
                   issued, lateClaim>>

\* ---- Worker::new, the thread's loop ----
\* line 195: receiver.lock()
WorkerLockReceiver(w) ==
    /\ wpc[w] = "lock_rx"
    /\ rxLock = NoOne
    /\ rxLock' = w
    /\ wpc' = [wpc EXCEPT ![w] = "recv"]
    /\ UNCHANGED <<pool, size, sender, queue, payload, jobs, jobsLock, held,
                   cpc, cjob, joinIdx, lastQuery, pushed, claimed, runs,
                   issued, lateClaim>>

\* Receiver::recv: the oldest buffered job if there is one, Err once the
\* buffer is empty and the Sender is dropped, and it blocks otherwise
RecvReady(q, open) == q # <<>> \/ ~open

\* a variant in which disconnection wins over buffered jobs
RecvIsJobWhileOpen(q, open) == q # <<>> /\ open

\* recv returns Ok(job) rather than Err(RecvError)
RecvIsJob(q, open) == q # <<>>

\* a variant that hands out the newest buffered job
RecvJobNewest(q) == q[Len(q)]

\* the job recv returns: the oldest one in the buffer
RecvJob(q) == Head(q)

\* a variant that reads the oldest job without removing it
RecvRestKeep(q) == q

\* what recv leaves in the buffer when it returns a job
RecvRest(q) == Tail(q)

\* a variant whose guard lives as long as the job (a `while let` over
\* receiver.lock().unwrap().recv())
ReceiverGuardKept(w) == w

\* line 201: the receiver mutex once the `let message` statement has ended
ReceiverGuardDropped(w) == NoOne

\* lines 196-203 and 239-241: recv under the receiver lock; the guard is a
\* temporary of the `let message` statement and is released at its end
WorkerRecv(w) ==
    /\ wpc[w] = "recv"
    /\ rxLock = w
    /\ RecvReady(queue, sender)
    /\ rxLock' = ReceiverGuardDropped(w)
    /\ IF RecvIsJob(queue, sender)
       THEN /\ held' = [held EXCEPT ![w] = RecvJob(queue)]
            /\ queue' = RecvRest(queue)
            /\ claimed' = Append(claimed, RecvJob(queue))
            /\ lateClaim' = (lateClaim \/ ~sender)
            /\ wpc' = [wpc EXCEPT ![w] = "claimed"]
       ELSE /\ wpc' = [wpc EXCEPT ![w] = "exit"]
            /\ UNCHANGED <<held, queue, claimed, lateClaim>>
    /\ UNCHANGED <<pool, size, sender, payload, jobs, jobsLock, cpc, cjob,
                   joinIdx, lastQuery, pushed, runs, issued>>

\* a variant that also fills in a result while the job is being processed
MarkProcessingWithResult(m, id) ==
    IF id \in DOMAIN m
    THEN [m EXCEPT ![id] = JobMetadata(Processing, "processing")]
    ELSE m

\* lines 208-210
MarkProcessing(m, id) ==
    IF id \in DOMAIN m THEN [m EXCEPT ![id].state = Processing] ELSE m

\* lines 205-210: lock the registry and mark the job Processing
WorkerMark(w) ==
    /\ wpc[w] = "claimed"
    /\ jobsLock = Unlocked
    /\ jobsLock' = <<"w", w>>
    /\ jobs' = MarkProcessing(jobs, held[w])
    /\ wpc' = [wpc EXCEPT ![w] = "marked"]
    /\ UNCHANGED <<pool, size, sender, queue, payload, rxLock, held, cpc,
                   cjob, joinIdx, lastQuery, pushed, claimed, runs, issued,
                   lateClaim>>

\* a variant without the inner block: the guard lives across the payload call
MarkGuardKept(w) == <<"w", w>>

\* lines 206-211: the registry mutex once the block around the guard has ended
MarkGuardDropped(w) == Unlocked

\* line 211: the guard goes out of scope
WorkerUnlockMark(w) ==
    /\ wpc[w] = "marked"
    /\ jobsLock = <<"w", w>>
    /\ jobsLock' = MarkGuardDropped(w)
    /\ wpc' = [wpc EXCEPT ![w] = "run"]
    /\ UNCHANGED <<pool, size, sender, queue, payload, jobs, rxLock, held,
                   cpc, cjob, joinIdx, lastQuery, pushed, claimed, runs,
                   issued, lateClaim>>

\* a variant that completes a job without storing its text
ResultMetadataNoResult(res) ==
    IF res.kind = "Ok"
    THEN JobMetadata(Completed, NoText)
    ELSE JobMetadata(Failed(res.text), res.text)

\* a variant that fails a job with a fixed reason
ResultMetadataFixedReason(res) ==
    IF res.kind = "Ok"
    THEN JobMetadata(Completed, res.text)
    ELSE JobMetadata(Failed("error"), res.text)

\* lines 218-235: the metadata written for a payload outcome
ResultMetadata(res) ==
    IF res.kind = "Ok"
    THEN JobMetadata(Completed, res.text)
    ELSE JobMetadata(Failed(res.text), res.text)

\* a variant whose lookup misses the entry
RecordResultSkipped(m, id, res) == m

\* a variant that takes the entry of a finished job out of the registry
RecordResultRemoves(m, id, res) == [i \in (DOMAIN m) \ {id} |-> m[i]]

\* lines 217-235
RecordResult(m, id, res) ==
    IF id \in DOMAIN m THEN [m EXCEPT ![id] = ResultMetadata(res)] ELSE m

\* line 213: (job.payload)(), what the call of a job's payload returns
CallPayload(id) == payload[id]

\* lines 213-235: the payload call returns, the worker locks the registry and
\* records the outcome.  The worker is inside the call while it is at "run".
WorkerRecord(w) ==
    /\ wpc[w] = "run"
    /\ CallPayload(held[w]).kind # "Panic"
    /\ jobsLock = Unlocked
    /\ jobsLock' = <<"w", w>>
    /\ jobs' = RecordResult(jobs, held[w], CallPayload(held[w]))
    /\ runs' = [runs EXCEPT ![held[w]] = @ + 1]
    /\ wpc' = [wpc EXCEPT ![w] = "recorded"]
    /\ UNCHANGED <<pool, size, sender, queue, payload, rxLock, held, cpc,
                   cjob, joinIdx, lastQuery, pushed, claimed, issued,
                   lateClaim>>

\* a variant whose thread ends after its first job
LoopOnce == "exit"

\* line 194: `loop`, the position after a job has been served
LoopAgain == "lock_rx"

\* a variant that leaves the loop when the payload reported a failure
AfterJobUnlessFailed(res) == IF res.kind = "Err" THEN "exit" ELSE LoopAgain

\* lines 218-238: neither arm of `match result` leaves the loop
AfterJob(res) == LoopAgain

\* lines 237-238: the guard and the job go out of scope, the loop starts over
WorkerUnlockRecord(w) ==
    /\ wpc[w] = "recorded"
    /\ jobsLock = <<"w", w>>
    /\ jobsLock' = Unlocked
    /\ held' = [held EXCEPT ![w] = NoOne]
    /\ wpc' = [wpc EXCEPT ![w] = AfterJob(CallPayload(held[w]))]
    /\ UNCHANGED <<pool, size, sender, queue, payload, jobs, rxLock, cpc,
                   cjob, joinIdx, lastQuery, pushed, claimed, runs, issued,
                   lateClaim>>

WorkerStep(w) ==
    \/ WorkerLockReceiver(w)
    \/ WorkerRecv(w)
    \/ WorkerMark(w)
    \/ WorkerUnlockMark(w)
    \/ WorkerRecord(w)
    \/ WorkerUnlockRecord(w)

\* ---- Drop for ThreadPool ----
\* a variant that leaves the Sender in the pool while the workers are joined
TakeSenderKept(s) == s

\* line 163: self.sender after drop(self.sender.take())
TakeSender(s) == FALSE

\* line 163: drop(self.sender.take()).  drop takes &mut self: no execute or
\* get_job_metadata call is in progress
DropSender ==
    /\ pool = "live"
    /\ \A c \in Clients : cpc[c] \in {"idle", "panicked"}
    /\ sender' = TakeSender(sender)
    /\ pool' = "dropping"
    /\ joinIdx' = 1
    /\ UNCHANGED <<size, queue, payload, jobs, jobsLock, rxLock, wpc, held,
                   cpc, cjob, lastQuery, pushed, claimed, runs, issued,
                   lateClaim>>

\* JoinHandle::join returns once the thread has ended: Ok after the loop was
\* left, Err (printed, lines 169-172) after a panic
Joinable(w) == wpc[w] \in {"exit", "dead"}

\* a variant that joins the first worker only
JoinedAllFirst(i) == i = 1

\* line 164: the `for` over self.workers ends after the last worker
JoinedAll(i) == i = size

\* lines 164-175: join the workers in order; drop returns after the last one
DropJoin ==
    /\ pool = "dropping"
    /\ joinIdx <= size
    /\ Joinable(joinIdx)
    /\ joinIdx' = joinIdx + 1
    /\ pool' = IF JoinedAll(joinIdx) THEN "dropped" ELSE pool
    /\ UNCHANGED <<size, sender, queue, payload, jobs, jobsLock, rxLock, wpc,
                   held, cpc, cjob, lastQuery, pushed, claimed, runs, issued,
                   lateClaim>>


\* ---- panics ----
\* line 213: the payload panics; the thread unwinds with no mutex held, the
\* job and the thread's handles of the channel and the registry are dropped
WorkerPayloadPanics(w) ==
    /\ wpc[w] = "run"
    /\ CallPayload(held[w]).kind = "Panic"
    /\ runs' = [runs EXCEPT ![held[w]] = @ + 1]
    /\ held' = [held EXCEPT ![w] = NoOne]
    /\ wpc' = [wpc EXCEPT ![w] = "dead"]
    /\ UNCHANGED <<pool, size, sender, queue, payload, jobs, jobsLock, rxLock,
                   cpc, cjob, joinIdx, lastQuery, pushed, claimed, issued,
                   lateClaim>>

\* lines 222 and 230: println! panics (stdout is gone) while jobs_map is
\* alive: the guard is dropped during the unwinding and poisons the mutex
WorkerPrintPanics(w) ==
    /\ wpc[w] = "recorded"
    /\ jobsLock = <<"w", w>>
    /\ jobsLock' = Poisoned
    /\ held' = [held EXCEPT ![w] = NoOne]
    /\ wpc' = [wpc EXCEPT ![w] = "dead"]
    /\ UNCHANGED <<pool, size, sender, queue, payload, jobs, rxLock, cpc,
                   cjob, joinIdx, lastQuery, pushed, claimed, runs, issued,
                   lateClaim>>

\* lines 207 and 216: jobs.lock().unwrap() on the poisoned mutex panics, before
\* the job is marked Processing or after its payload has returned
WorkerLockPanics(w) ==
    /\ jobsLock = Poisoned
    /\ \/ /\ wpc[w] = "claimed"
          /\ UNCHANGED runs
       \/ /\ wpc[w] = "run"
          /\ CallPayload(held[w]).kind # "Panic"
          /\ runs' = [runs EXCEPT ![held[w]] = @ + 1]
    /\ held' = [held EXCEPT ![w] = NoOne]
    /\ wpc' = [wpc EXCEPT ![w] = "dead"]
    /\ UNCHANGED <<pool, size, sender, queue, payload, jobs, jobsLock, rxLock,
                   cpc, cjob, joinIdx, lastQuery, pushed, claimed, issued,
                   lateClaim>>

\* line 142: self.jobs.lock().unwrap() on the poisoned mutex panics: execute
\* unwinds, nothing is inserted or sent, no identifier is returned
ExecuteLockPanics(c) ==
    /\ pool = "live"
    /\ cpc[c] = "idle"
    /\ jobsLock = Poisoned
    /\ cpc' = [cpc EXCEPT ![c] = "panicked"]
    /\ UNCHANGED <<pool, size, sender, queue, payload, jobs, jobsLock, rxLock,
                   wpc, held, cjob, joinIdx, lastQuery, pushed, claimed, runs,
                   issued, lateClaim>>


\* ======================= properties =======================
Terminal(s) == s.tag \in {"Completed", "Failed"}
Rank(s) == IF s = Pending THEN 0 ELSE IF s = Processing THEN 1 ELSE 2
ProcessingJobs == {id \in DOMAIN jobs : jobs[id].state = Processing}
Occurrences(s, x) == Cardinality({i \in 1..Len(s) : s[i] = x})

\* one change of a registry state: none, Pending -> Processing, or
\* Processing -> Completed | Failed
StepAllowed(a, b) ==
    \/ a = b
    \/ a = Pending /\ b = Processing
    \/ a = Processing /\ Terminal(b)

\* two successive observations of one job by get_job_metadata
ObservedForward(a, b) == Rank(a) <= Rank(b) /\ (Terminal(a) => b = a)

\* C1: the registry state of a job only changes along Pending -> Processing
\* -> (Completed | Failed); a terminal state is never left, and two successive
\* queries of one job never see it move backward or from Completed to Failed
\* (or back).
C1_ForwardOnly ==
    [][ /\ \A id \in DOMAIN jobs :
              id \in DOMAIN jobs' => StepAllowed(jobs[id].state, jobs'[id].state)
        /\ (lastQuery.found /\ lastQuery'.found /\ lastQuery'.id = lastQuery.id)
              => ObservedForward(lastQuery.meta.state, lastQuery'.meta.state)
      ]_vars

\* a query has seen a job Failed while another job is Completed
C1_Witness ==
    /\ lastQuery.found
    /\ lastQuery.meta.state.tag = "Failed"
    /\ \E id \in DOMAIN jobs : jobs[id].state = Completed

\* C2: recv hands each job to one worker: no job is claimed twice, no payload
\* is called twice, no two workers own the same job, and a pushed job is
\* either still in the queue or has been claimed, never both.
C2_ClaimedOnce ==
    /\ \A id \in JobIds : Occurrences(claimed, id) <= 1 /\ runs[id] <= 1
    /\ \A w1, w2 \in Workers :
          (w1 # w2 /\ held[w1] # NoOne) => held[w1] # held[w2]
    /\ SeqSet(claimed) \cap SeqSet(queue) = {}
    /\ SeqSet(claimed) \cup SeqSet(queue) = SeqSet(pushed)

\* two workers own a job each and both are inside the payload call
C2_Witness ==
    \A w \in 1..2 : held[w] # NoOne /\ wpc[w] = "run"

\* C3: under FairSpec, a job whose payload returns Ok(x) eventually is
\* Completed with result Some(x).
C3_OkCompletes ==
    \A id \in JobIds :
        (id \in DOMAIN jobs /\ payload[id].kind = "Ok")
            ~> (id \in DOMAIN jobs
                /\ jobs[id] = JobMetadata(Completed, payload[id].text))

\* a job with an Ok payload is Completed with the payload's text
C3_Witness ==
    \E id \in DOMAIN jobs :
        /\ payload[id].kind = "Ok"
        /\ runs[id] = 1
        /\ jobs[id] = JobMetadata(Completed, payload[id].text)

\* C4: under FairSpec, a job whose payload returns Err(y) eventually is
\* Failed(y) with result Some(y).
C4_ErrFails ==
    \A id \in JobIds :
        (id \in DOMAIN jobs /\ payload[id].kind = "Err")
            ~> (id \in DOMAIN jobs
                /\ jobs[id] = JobMetadata(Failed(payload[id].text),
                                          payload[id].text))

\* a job with an Err payload is Failed with the payload's text
C4_Witness ==
    \E id \in DOMAIN jobs :
        /\ payload[id].kind = "Err"
        /\ runs[id] = 1
        /\ jobs[id] = JobMetadata(Failed(payload[id].text), payload[id].text)

\* C5: at most `size` jobs are Processing, however many have been submitted.
C5_ProcessingBounded == Cardinality(ProcessingJobs) <= size

\* more jobs than workers have been submitted, every worker's job is
\* Processing and a job is waiting in the queue
C5_Witness ==
    /\ pool = "live"
    /\ Len(payload) > size
    /\ Cardinality(ProcessingJobs) = size
    /\ queue # <<>>

\* C6: under FairSpec, once more jobs have been submitted than the pool has
\* workers, every submitted job eventually is Completed or Failed.
C6_AllTerminate ==
    \A id \in JobIds :
        (id \in DOMAIN jobs /\ Len(payload) > size)
            ~> (id \in DOMAIN jobs /\ Terminal(jobs[id].state))

\* a pool with fewer workers than jobs has brought every job to a terminal
\* state, the ones that waited in the queue included
C6_Witness ==
    /\ size >= 1
    /\ Len(payload) = MaxJobs
    /\ Len(payload) > size
    /\ Len(claimed) = MaxJobs
    /\ \A id \in DOMAIN jobs : Terminal(jobs[id].state)

\* C7: when drop returns, every worker thread has ended and every job a
\* worker claimed is Completed or Failed.
C7_DropWaits ==
    pool = "dropped" =>
        /\ \A w \in 1..size : wpc[w] = "exit"
        /\ \A id \in SeqSet(claimed) : Terminal(jobs[id].state)
        /\ ProcessingJobs = {}

\* drop has returned from a pool of two workers that served jobs
C7_Witness ==
    /\ pool = "dropped"
    /\ size = 2
    /\ Len(claimed) >= 2

\* C8: every job pushed before the sender is dropped has had its payload
\* called, once, by the time drop returns.
C8_QueuedJobsRun ==
    pool = "dropped" => \A id \in SeqSet(pushed) : runs[id] = 1

\* drop has returned, and a job was still unclaimed when the sender was
\* dropped
C8_Witness ==
    /\ pool = "dropped"
    /\ lateClaim
    /\ \A id \in SeqSet(pushed) : runs[id] = 1

\* C9 as stated: once the sender is dropped no claim attempt returns a job, so
\* a job that is in the queue at that moment is never claimed.
C9_Original == ~lateClaim

\* C9 amended: after the sender is dropped, recv still returns the buffered
\* jobs and reports disconnection only once the buffer is empty: a worker has
\* left its loop only if the sender is dropped and the queue is empty, and
\* every pushed job, the ones unclaimed at closure included, has been claimed
\* and has left Pending when drop returns.
C9_DrainedBeforeClosed ==
    /\ \A w \in Workers : wpc[w] = "exit" => (~sender /\ queue = <<>>)
    /\ pool = "dropped" =>
          \A id \in SeqSet(pushed) :
              id \in SeqSet(claimed) /\ jobs[id].state # Pending

\* a job has been claimed after the sender was dropped; one worker has got
\* "closed" while another still owns a job
C9_Witness ==
    /\ lateClaim
    /\ \E w1, w2 \in Workers : wpc[w1] = "exit" /\ held[w2] # NoOne

\* C10: no step removes a registry entry; every identifier execute has
\* returned is in the registry; a query of an identifier execute has returned
\* finds it, and a query of an identifier no Job was created with does not.
C10_EntriesKept ==
    /\ [](issued \subseteq DOMAIN jobs)
    /\ [][ /\ DOMAIN jobs \subseteq DOMAIN jobs'
           /\ lastQuery' # lastQuery =>
                 /\ lastQuery'.id \in issued => lastQuery'.found
                 /\ lastQuery'.id > Len(payload) => ~lastQuery'.found
         ]_vars

\* a query has found a job that finished long ago, and another identifier
\* is still unused
C10_Witness ==
    /\ lastQuery.found
    /\ lastQuery.id \in issued
    /\ Terminal(lastQuery.meta.state)
    /\ Len(payload) < MaxJobs

\* what a JobMetadata of job id may hold: no result while Pending or
\* Processing, the payload's success text when Completed, the payload's
\* failure text, as reason and as result, when Failed
MetadataConsistent(meta, id) ==
    /\ (meta.result = NoText) <=> (meta.state \in {Pending, Processing})
    /\ meta.state.tag \in {"Pending", "Processing", "Completed", "Failed"}
    /\ meta.state.tag = "Completed" =>
          /\ meta.state = Completed
          /\ payload[id].kind = "Ok"
          /\ meta.result = payload[id].text
    /\ meta.state.tag = "Failed" =>
          /\ payload[id].kind = "Err"
          /\ meta.state.reason = payload[id].text
          /\ meta.result = payload[id].text

\* C11: in the registry and in every copy get_job_metadata has returned, the
\* result is unset exactly when the state is Pending or Processing, is the
\* payload's success text when Completed and the failure reason when Failed.
C11_ResultFollowsState ==
    /\ \A id \in DOMAIN jobs : MetadataConsistent(jobs[id], id)
    /\ lastQuery.found => MetadataConsistent(lastQuery.meta, lastQuery.id)

\* a query has returned a Completed job with its text while another job is
\* Processing with no result
C11_Witness ==
    /\ lastQuery.found
    /\ lastQuery.meta = JobMetadata(Completed, "done")
    /\ \E id \in DOMAIN jobs : jobs[id] = JobMetadata(Processing, NoText)

\* C12: jobs are claimed in the order they were pushed: the claimed jobs are a
\* prefix of the pushed ones and the queue holds the rest, in order.
C12_ClaimedInPushOrder ==
    /\ Len(claimed) <= Len(pushed)
    /\ \A i \in 1..Len(claimed) : claimed[i] = pushed[i]
    /\ queue = SubSeq(pushed, Len(claimed) + 1, Len(pushed))

\* two jobs have been pushed and both have been claimed
C12_Witness ==
    /\ Len(claimed) = 2
    /\ claimed = pushed

\* C13: recording a failed payload changes the entry of that job only and
\* nothing of the queue, the pool or the other workers; the worker that ran it
\* goes back to the top of its loop; and under FairSpec every job in the
\* registry still reaches a terminal state once some job has Failed.
C13_FailureContained ==
    /\ [][ \A w \in Workers :
             /\ ( /\ wpc[w] = "run"
                  /\ wpc'[w] = "recorded"
                  /\ payload[held[w]].kind = "Err" ) =>
                   /\ DOMAIN jobs' = DOMAIN jobs
                   /\ jobs'[held[w]].state = Failed(payload[held[w]].text)
                   /\ \A id \in DOMAIN jobs \ {held[w]} : jobs'[id] = jobs[id]
                   /\ \A v \in Workers \ {w} :
                         wpc'[v] = wpc[v] /\ held'[v] = held[v]
                   /\ <<queue, pool, sender, rxLock>>' =
                         <<queue, pool, sender, rxLock>>
             /\ (wpc[w] = "recorded" /\ wpc'[w] # "recorded") =>
                   wpc'[w] = "lock_rx"
         ]_vars
    /\ \A id \in JobIds :
          ( /\ id \in DOMAIN jobs
            /\ \E f \in DOMAIN jobs : jobs[f].state.tag = "Failed" )
             ~> (id \in DOMAIN jobs /\ Terminal(jobs[id].state))

\* the only worker of a pool has failed the first job and completed the
\* second, and is waiting for the next
C13_Witness ==
    /\ size = 1
    /\ pool = "live"
    /\ Len(payload) = 2
    /\ jobs[1].state.tag = "Failed"
    /\ jobs[2].state = Completed
    /\ wpc[1] = "recv"

\* no worker thread, no channel, no registry entry
NothingCreated ==
    /\ \A w \in Workers : wpc[w] = "none"
    /\ ~sender
    /\ queue = <<>>
    /\ jobs = <<>>

\* C14: build(0) ends in the error and creates nothing; build(n) with n >= 1
\* returns a live pool with exactly n worker threads at the top of their loop,
\* an open channel and an empty registry; no pool ever has zero workers.
C14_BuildChecksSize ==
    /\ [](pool = "error" => (size = 0 /\ NothingCreated))
    /\ [](pool \in {"live", "dropping", "dropped"} => size >= 1)
    /\ [][ (pool = "unbuilt" /\ pool' # "unbuilt") =>
             /\ size' = 0 => pool' = "error"
             /\ size' >= 1 =>
                   /\ pool' = "live"
                   /\ sender'
                   /\ \A w \in Workers :
                         wpc'[w] = IF w <= size' THEN "lock_rx" ELSE "none"
                   /\ jobs' = <<>>
                   /\ queue' = <<>>
         ]_vars

\* build(0) has returned the error
C14_Witness ==
    /\ pool = "error"
    /\ size = 0
    /\ NothingCreated

\* every worker the pool was built with has ended: the Receiver is gone
NoConsumer == pool = "live" /\ ~ReceiverAlive

C16_PoisonNotEscalated ==
    jobsLock = Poisoned => \A c \in Clients : cpc[c] # "panicked"

\* C17: under FairSpec, with payloads that return, a drop that has begun
\* ends; the sender is gone before the first join and stays gone.
C17_DropTerminates ==
    /\ [](pool \in {"dropping", "dropped"} => ~sender)
    /\ (pool = "dropping") ~> (pool = "dropped")

\* a drop that began while a job was still unfinished has returned
C17_Witness ==
    /\ pool = "dropped"
    /\ ~sender
    /\ lateClaim
    /\ \A w \in 1..size : wpc[w] = "exit"
    /\ \A id \in DOMAIN jobs : Terminal(jobs[id].state)

\* C18: the registry mutex is never held by a worker whose payload is running:
\* a worker holds it only in its two critical sections, a client only between
\* its insert and the end of that statement, so neither execute nor
\* get_job_metadata waits for a job.
C18_RegistryFreeWhileRunning ==
    /\ \A w \in Workers :
          /\ wpc[w] = "run" => jobsLock # <<"w", w>>
          /\ jobsLock = <<"w", w>> => wpc[w] \in {"marked", "recorded"}
    /\ \A c \in Clients : jobsLock = <<"c", c>> => cpc[c] = "inserted"
    /\ jobsLock \in {Unlocked} \cup {<<"w", w>> : w \in Workers}
                               \cup {<<"c", c>> : c \in Clients}

\* while a payload runs, a query has returned its job as Processing and a
\* submit is inside its insert
C18_Witness ==
    \E w \in Workers :
        /\ wpc[w] = "run"
        /\ lastQuery.found
        /\ lastQuery.id = held[w]
        /\ lastQuery.meta.state = Processing
        /\ \E c \in Clients : jobsLock = <<"c", c>>

\* C19: a worker holds the receiver mutex exactly while it is inside recv; it
\* has released it before it marks the job Processing and runs it.
C19_ReceiverLockOnlyInRecv ==
    /\ \A w \in Workers : (rxLock = w) <=> (wpc[w] = "recv")
    /\ rxLock \in Workers \cup {NoOne}

\* a pool of at least two workers with two jobs Processing at once
C19_Witness ==
    /\ size >= 2
    /\ rxLock = NoOne
    /\ Cardinality(ProcessingJobs) = 2

\* the jobs a worker has in hand
HeldJobs == {held[w] : w \in Workers} \ {NoOne}

\* C20: every job in the queue, in a worker's hands or about to be sent has
\* an entry in the registry, so no update of a worker finds nothing to update:
\* the job is Processing once marked and terminal once recorded.
C20_EntryBeforePush ==
    /\ SeqSet(queue) \cup HeldJobs \subseteq DOMAIN jobs
    /\ \A c \in Clients : cpc[c] = "send" => cjob[c] \in DOMAIN jobs
    /\ \A w \in Workers :
          /\ wpc[w] \in {"marked", "run"} => jobs[held[w]].state = Processing
          /\ wpc[w] = "recorded" => Terminal(jobs[held[w]].state)

\* a worker has just marked its job while another job waits in the queue
C20_Witness ==
    /\ queue # <<>>
    /\ \E w \in Workers :
          /\ wpc[w] = "marked"
          /\ jobs[held[w]].state = Processing
          /\ jobs[Head(queue)].state = Pending

\* ======================= specification =======================
\* the pool without its observers: build, execute, the workers and drop
PoolNext ==
    \/ \E n \in 0..MaxSize : Build(n)
    \/ \E c \in Clients, p \in Payloads : ExecuteInsert(c, p)
    \/ \E c \in Clients : ExecuteUnlock(c)
    \/ \E c \in Clients : ExecuteSend(c)
    \/ \E w \in Workers : WorkerLockReceiver(w)
    \/ \E w \in Workers : WorkerRecv(w)
    \/ \E w \in Workers : WorkerMark(w)
    \/ \E w \in Workers : WorkerUnlockMark(w)
    \/ \E w \in Workers : WorkerRecord(w)
    \/ \E w \in Workers : WorkerUnlockRecord(w)
    \/ DropSender
    \/ DropJoin

\* the pool and callers of get_job_metadata, which ask for identifiers that
\* exist, that will exist, and one that never will
Next ==
    \/ PoolNext
    \/ \E id \in 1..(MaxJobs + 1) : GetJobMetadata(id)

Spec == Init /\ [][Next]_vars

\* get_job_metadata changes nothing but its caller's copy (lastQuery) and
\* holds the registry mutex for no step another thread can see: the claims
\* that are not about queries are checked without them
PoolSpec == Init /\ [][PoolNext]_vars

\* the pool with payloads that panic and with a worker that panics inside
\* the second critical section.  get_job_metadata is left out: on the poisoned
\* mutex it panics at line 156 the way execute does at line 142.
PanicNext ==
    \/ PoolNext
    \/ \E c \in Clients : ExecuteInsert(c, PanicPayload)
    \/ \E w \in Workers : WorkerPayloadPanics(w)
    \/ \E w \in Workers : WorkerPrintPanics(w)
    \/ \E w \in Workers : WorkerLockPanics(w)
    \/ \E c \in Clients : ExecuteLockPanics(c)

PanicSpec == Init /\ [][PanicNext]_vars

\* Scheduling: every thread that can take a step eventually does.  A client
\* inside execute finishes the call, a worker thread keeps running, and a
\* join that can return does.  Nothing obliges a caller to build, to submit,
\* to query or to dispose the pool.
FairSpec ==
    /\ PoolSpec
    /\ \A w \in Workers : WF_vars(WorkerStep(w))
    /\ \A c \in Clients : WF_vars(ExecuteUnlock(c) \/ ExecuteSend(c))
    /\ WF_vars(DropJoin)

====
